---------------------------- MODULE Spec2Model ----------------------------
(***************************************************************************)
(* Model of app.py, the Streamlit "YouTube Transcript Copier".             *)
(*                                                                         *)
(* Text that the program inspects character by character (the URL, the     *)
(* caption texts, the transcript) is a sequence of one-character strings.  *)
(* Text that the program only passes on (labels, messages, error           *)
(* descriptions) is a TLA+ string.  An Optional value is a sequence of     *)
(* length zero (None) or one.                                              *)
(*                                                                         *)
(* One run of main() is split at the only place where it blocks: the call  *)
(* of YouTubeTranscriptApi.get_transcript.  pc = "fetching" is main()      *)
(* waiting inside fetch_transcript, pc = "idle" is the script finished and *)
(* the session waiting for the next widget interaction.                    *)
(***************************************************************************)
EXTENDS Integers, Sequences, FiniteSets, TLC

VARIABLES
    video_url,      \* value of the text input widget (key "video_url")
    fetch_button,   \* what st.button returned in the current script run
    pc,             \* "idle" or "fetching"
    video_id,       \* local of main(): None or <<id>>
    ui,             \* elements rendered by the current script run, in order
    extract_log,    \* arguments of extract_video_id in the current run
    api_log,        \* arguments of get_transcript in the current run
    result,         \* None or <<outcome of get_transcript>> in the current run
    pieces,         \* number of pieces typed into the input since it was cleared
    prev_page       \* kinds of the elements on the page the current run replaced

vars ==
    <<video_url, fetch_button, pc, video_id, ui, extract_log, api_log, result, pieces, prev_page>>

---------------------------------------------------------------------------
(* Bounds of the model *)

MaxPieces ==
    3

MaxSegs ==
    2

---------------------------------------------------------------------------
(* Values *)

None ==
    <<>>

Some(x) ==
    <<x>>

\* The character class [0-9A-Za-z_-] of the pattern.
IdChars ==
    {"0", "1", "2", "3", "4", "5", "6", "7", "8", "9",
     "A", "B", "C", "D", "E", "F", "G", "H", "I", "J", "K", "L", "M",
     "N", "O", "P", "Q", "R", "S", "T", "U", "V", "W", "X", "Y", "Z",
     "a", "b", "c", "d", "e", "f", "g", "h", "i", "j", "k", "l", "m",
     "n", "o", "p", "q", "r", "s", "t", "u", "v", "w", "x", "y", "z",
     "_", "-"}

\* The repetition count {11} of the pattern.
IdLen ==
    11

\* What the user can type: the text input grows by one of these at a time.
Pieces ==
    { <<"v", "=">>,
      <<"/">>,
      <<"d", "Q", "w", "4", "w", "9", "W", "g", "X", "c", "Q">>,
      <<"v", "=", "_", "-", "3", "4", "5", "6", "7", "8", "9", "0", "1">>,
      <<"&", "t", "=", "3", "0", "s">>,
      <<"n", "o", "t", " ", "a", " ", "u", "r", "l">> }

\* Caption records the external service can return.  A record is a dict;
\* the last one has no "text" key.
Segments ==
    { [text |-> <<"H", "e", "l", "l", "o">>, start |-> 0],
      [text |-> <<"w", "o", "r", "l", "d">>, start |-> 1],
      [start |-> 2] }

\* str() of the exceptions get_transcript can raise.
Descriptions ==
    { "No transcripts available", "" }

SeqsUpTo(S, n) ==
    UNION { [1..k -> S] : k \in 0..n }

Returned(segs) ==
    [kind |-> "return", segs |-> segs, desc |-> ""]

Raised(desc) ==
    [kind |-> "raise", segs |-> <<>>, desc |-> desc]

---------------------------------------------------------------------------
(* extract_video_id: re.search(r"(?:v=|/)([0-9A-Za-z_-]{11})", url) *)

\* Group with a boundary after the run: ([0-9A-Za-z_-]{11})(?![0-9A-Za-z_-]).
Group_bounded(url, j) ==
    IF /\ j + IdLen - 1 <= Len(url)
       /\ \A k \in j..(j + IdLen - 1) : url[k] \in IdChars
       /\ (j + IdLen <= Len(url) => url[j + IdLen] \notin IdChars)
    THEN Some(SubSeq(url, j, j + IdLen - 1))
    ELSE None

\* ([0-9A-Za-z_-]{11}) tried at position j: the group, or None.
Group(url, j) ==
    IF /\ j + IdLen - 1 <= Len(url)
       /\ \A k \in j..(j + IdLen - 1) : url[k] \in IdChars
    THEN Some(SubSeq(url, j, j + IdLen - 1))
    ELSE None

\* Prefix made optional: (?:v=|/)?
Prefix_optional(url, i) ==
    (IF i + 1 <= Len(url) /\ url[i] = "v" /\ url[i + 1] = "="
     THEN <<i + 2>> ELSE <<>>)
    \o
    (IF i <= Len(url) /\ url[i] = "/"
     THEN <<i + 1>> ELSE <<>>)
    \o
    <<i>>

\* (?:v=|/) tried at position i: the positions right after each alternative
\* that matches, in the order the alternatives are tried.
Prefix(url, i) ==
    (IF i + 1 <= Len(url) /\ url[i] = "v" /\ url[i + 1] = "="
     THEN <<i + 2>> ELSE <<>>)
    \o
    (IF i <= Len(url) /\ url[i] = "/"
     THEN <<i + 1>> ELSE <<>>)

RECURSIVE TryAlternatives(_, _)
\* Backtracking over the alternatives: the first one after which the group
\* matches decides.
TryAlternatives(url, starts) ==
    IF starts = <<>> THEN None
    ELSE LET g == Group(url, Head(starts))
         IN  IF g # None THEN g ELSE TryAlternatives(url, Tail(starts))

\* The whole pattern tried at position i.
MatchAt(url, i) ==
    TryAlternatives(url, Prefix(url, i))

RECURSIVE Search_last(_, _)
\* Search that lets the last position where the pattern matches decide.
Search_last(url, i) ==
    IF i > Len(url) THEN None
    ELSE LET later == Search_last(url, i + 1)
         IN  IF later # None THEN later ELSE MatchAt(url, i)

RECURSIVE Search(_, _)
\* re.search: the pattern is tried at i, i+1, ... and the first position
\* where it matches decides.
Search(url, i) ==
    IF i > Len(url) THEN None
    ELSE LET m == MatchAt(url, i)
         IN  IF m # None THEN m ELSE Search(url, i + 1)

extract_video_id(url) ==
    Search(url, 1)

---------------------------------------------------------------------------
(* fetch_transcript *)

RECURSIVE join_trailing(_, _)
\* join that ends every text, the last one too, with the separator.
join_trailing(sep, texts) ==
    IF texts = <<>> THEN <<>>
    ELSE texts[1] \o sep \o join_trailing(sep, Tail(texts))

RECURSIVE join(_, _)
\* sep.join(texts)
join(sep, texts) ==
    IF texts = <<>> THEN <<>>
    ELSE IF Len(texts) = 1 THEN texts[1]
    ELSE texts[1] \o sep \o join(sep, Tail(texts))

\* entry["text"] for entry in transcript_list raises KeyError when an entry
\* has no "text" key; str(KeyError("text")) is "'text'".
HasText(entry) ==
    "text" \in DOMAIN entry

\* The outcome of fetch_transcript(video_id) when get_transcript had the
\* outcome res: a returned transcript or a raised exception.
fetch_transcript(res) ==
    IF res.kind = "raise"
    THEN [ok |-> FALSE, value |-> <<>>, desc |-> res.desc]
    ELSE IF \E k \in 1..Len(res.segs) : ~HasText(res.segs[k])
    THEN [ok |-> FALSE, value |-> <<>>, desc |-> "'text'"]
    ELSE [ok |-> TRUE,
          value |-> join(<<"\n">>, [k \in 1..Len(res.segs) |-> res.segs[k].text]),
          desc |-> ""]

---------------------------------------------------------------------------
(* The elements main() renders *)

Element(kind, text, data) ==
    [kind |-> kind, text |-> text, data |-> data, file_name |-> "", mime |-> ""]

EmptyInputMsg ==
    "Please enter a YouTube URL."

InvalidUrlMsg ==
    "Invalid YouTube URL. Please check the link and try again."

FetchErrorMsg(desc) ==
    "Sorry, there was a problem fetching the transcript: " \o desc \o "."

Error(msg) ==
    Element("error", msg, <<>>)

Spinner ==
    Element("spinner", "Fetching transcript...", <<>>)

TextArea(transcript) ==
    Element("text_area", "Transcript", transcript)

DownloadButton(transcript) ==
    [kind |-> "download_button", text |-> "Download Transcript as .txt",
     data |-> transcript, file_name |-> "youtube_transcript.txt",
     mime |-> "text/plain"]

\* The kinds of the elements of a page, in order.
Kinds(page) ==
    [k \in 1..Len(page) |-> page[k].kind]

\* Rendered by every run before the button is looked at.
Header(url) ==
    << Element("title", "YouTube Transcript Copier", <<>>),
       Element("write", "Paste a YouTube video URL below", <<>>),
       Element("text_input", "Enter YouTube Video URL:", url),
       Element("button", "Get Transcript", <<>>) >>

\* Display whose download data ends with a newline the text area lacks.
Display_newline(transcript) ==
    << Element("success", "Transcript fetched successfully!", <<>>),
       Element("write", "Below is the transcript of your video. You can scroll and copy.", <<>>),
       TextArea(transcript),
       DownloadButton(transcript \o <<"\n">>) >>

\* Rendered after fetch_transcript returned.
Display(transcript) ==
    << Element("success", "Transcript fetched successfully!", <<>>),
       Element("write", "Below is the transcript of your video. You can scroll and copy.", <<>>),
       TextArea(transcript),
       DownloadButton(transcript) >>

---------------------------------------------------------------------------
(* main() *)

\* RunScript that extracts the id before it looks whether the input is empty.
RunScript_extract_first(url, pressed) ==
    IF ~pressed
    THEN [pc |-> "idle", ui |-> Header(url), video_id |-> None,
          extract_log |-> <<>>, api_log |-> <<>>]
    ELSE LET id == extract_video_id(url)
         IN  IF id = None
             THEN [pc |-> "idle", ui |-> Header(url) \o <<Error(InvalidUrlMsg)>>,
                   video_id |-> None, extract_log |-> <<url>>, api_log |-> <<>>]
             ELSE IF url = <<>>
             THEN [pc |-> "idle", ui |-> Header(url) \o <<Error(EmptyInputMsg)>>,
                   video_id |-> id, extract_log |-> <<url>>, api_log |-> <<>>]
             ELSE [pc |-> "fetching", ui |-> Header(url) \o <<Spinner>>,
                   video_id |-> id, extract_log |-> <<url>>, api_log |-> <<id[1]>>]

\* RunScript without the return after the invalid-URL message: it goes on
\* to fetch_transcript(None).
RunScript_no_return(url, pressed) ==
    IF ~pressed
    THEN [pc |-> "idle", ui |-> Header(url), video_id |-> None,
          extract_log |-> <<>>, api_log |-> <<>>]
    ELSE IF url = <<>>
    THEN [pc |-> "idle", ui |-> Header(url) \o <<Error(EmptyInputMsg)>>,
          video_id |-> None, extract_log |-> <<>>, api_log |-> <<>>]
    ELSE LET id == extract_video_id(url)
         IN  IF id = None
             THEN [pc |-> "fetching",
                   ui |-> Header(url) \o <<Error(InvalidUrlMsg), Spinner>>,
                   video_id |-> None, extract_log |-> <<url>>, api_log |-> <<None>>]
             ELSE [pc |-> "fetching", ui |-> Header(url) \o <<Spinner>>,
                   video_id |-> id, extract_log |-> <<url>>, api_log |-> <<id[1]>>]

\* main() from its first line to its return or to the call of
\* get_transcript, for the widget values url and pressed.
RunScript(url, pressed) ==
    IF ~pressed
    THEN [pc |-> "idle", ui |-> Header(url), video_id |-> None,
          extract_log |-> <<>>, api_log |-> <<>>]
    ELSE IF url = <<>>
    THEN [pc |-> "idle", ui |-> Header(url) \o <<Error(EmptyInputMsg)>>,
          video_id |-> None, extract_log |-> <<>>, api_log |-> <<>>]
    ELSE LET id == extract_video_id(url)
         IN  IF id = None
             THEN [pc |-> "idle", ui |-> Header(url) \o <<Error(InvalidUrlMsg)>>,
                   video_id |-> None, extract_log |-> <<url>>, api_log |-> <<>>]
             ELSE [pc |-> "fetching", ui |-> Header(url) \o <<Spinner>>,
                   video_id |-> id, extract_log |-> <<url>>, api_log |-> <<id[1]>>]

\* Resume without the try/except: Streamlit shows the uncaught exception.
Resume_uncaught(url, res) ==
    LET r == fetch_transcript(res)
    IN  IF ~r.ok
        THEN Header(url) \o <<Element("exception", r.desc, <<>>)>>
        ELSE Header(url) \o Display(r.value)

\* main() from the outcome res of get_transcript to its end: what is on
\* the page when the script has finished.
Resume(url, res) ==
    LET r == fetch_transcript(res)
    IN  IF ~r.ok
        THEN Header(url) \o <<Error(FetchErrorMsg(r.desc))>>
        ELSE Header(url) \o Display(r.value)

\* Run that keeps the error messages of the page it replaces.
Run_keep(url, pressed) ==
    LET s == RunScript(url, pressed)
    IN  /\ video_url' = url
        /\ fetch_button' = pressed
        /\ pc' = s.pc
        /\ video_id' = s.video_id
        /\ ui' = s.ui \o SelectSeq(ui, LAMBDA e : e.kind = "error")
        /\ extract_log' = s.extract_log
        /\ api_log' = s.api_log
        /\ result' = None
        /\ prev_page' = Kinds(ui)

\* One script run started by a widget interaction.
Run(url, pressed) ==
    LET s == RunScript(url, pressed)
    IN  /\ video_url' = url
        /\ fetch_button' = pressed
        /\ pc' = s.pc
        /\ video_id' = s.video_id
        /\ ui' = s.ui
        /\ extract_log' = s.extract_log
        /\ api_log' = s.api_log
        /\ result' = None
        /\ prev_page' = Kinds(ui)

\* Finish that calls get_transcript a second time when the first call raised.
Finish_retry(res) ==
    IF res.kind = "raise" /\ Len(api_log) < 2
    THEN /\ api_log' = Append(api_log, video_id[1])
         /\ UNCHANGED <<video_url, fetch_button, pc, video_id, ui, extract_log,
                        result, pieces, prev_page>>
    ELSE /\ pc' = "idle"
         /\ result' = Some(res)
         /\ ui' = Resume(video_url, res)
         /\ UNCHANGED <<video_url, fetch_button, video_id, extract_log, api_log,
                        pieces, prev_page>>

\* get_transcript has the outcome res and main() runs to its end.
Finish(res) ==
    /\ pc' = "idle"
    /\ result' = Some(res)
    /\ ui' = Resume(video_url, res)
    /\ UNCHANGED <<video_url, fetch_button, video_id, extract_log, api_log, pieces, prev_page>>

---------------------------------------------------------------------------
(* Actions *)

Init ==
    /\ video_url = <<>>
    /\ fetch_button = FALSE
    /\ pc = "idle"
    /\ video_id = None
    /\ ui = Header(<<>>)
    /\ extract_log = <<>>
    /\ api_log = <<>>
    /\ result = None
    /\ pieces = 0
    /\ prev_page = <<>>

\* The user types more text into the input; Streamlit reruns the script
\* and the button reads False.
TypeText ==
    /\ pc = "idle"
    /\ pieces < MaxPieces
    /\ \E p \in Pieces : Run(video_url \o p, FALSE)
    /\ pieces' = pieces + 1

\* The user clears the input.
ClearText ==
    /\ pc = "idle"
    /\ video_url # <<>>
    /\ Run(<<>>, FALSE)
    /\ pieces' = 0

\* The user presses "Get Transcript".
PressButton ==
    /\ pc = "idle"
    /\ Run(video_url, TRUE)
    /\ UNCHANGED pieces

\* The user presses the download button; Streamlit reruns the script and
\* "Get Transcript" reads False.
PressDownload ==
    /\ pc = "idle"
    /\ \E k \in 1..Len(ui) : ui[k].kind = "download_button"
    /\ Run(video_url, FALSE)
    /\ UNCHANGED pieces

\* get_transcript returns a list of caption records.
ApiReturn ==
    /\ pc = "fetching"
    /\ \E segs \in SeqsUpTo(Segments, MaxSegs) : Finish(Returned(segs))

\* get_transcript raises an exception.
ApiRaise ==
    /\ pc = "fetching"
    /\ \E desc \in Descriptions : Finish(Raised(desc))

Next ==
    \/ TypeText
    \/ ClearText
    \/ PressButton
    \/ PressDownload
    \/ ApiReturn
    \/ ApiRaise

Spec ==
    Init /\ [][Next]_vars

TypeOK ==
    /\ pc \in {"idle", "fetching"}
    /\ fetch_button \in BOOLEAN
    /\ Len(video_id) <= 1
    /\ Len(result) <= 1
    /\ pieces \in 0..MaxPieces

---------------------------------------------------------------------------
(* Vocabulary of the properties *)

\* The elements of one kind on the page, in order.
Shown(kind) ==
    SelectSeq(ui, LAMBDA e : e.kind = kind)

\* The error messages on the page, in order.
Messages ==
    [k \in 1..Len(Shown("error")) |-> Shown("error")[k].text]

\* The positions of s where 11 characters of the alphabet start right
\* after "v=" or right after "/".
Prefixed(s) ==
    { j \in 2..(Len(s) - 10) :
        /\ \A k \in 0..10 : s[j + k] \in IdChars
        /\ \/ s[j - 1] = "/"
           \/ j > 2 /\ s[j - 2] = "v" /\ s[j - 1] = "=" }

\* The 11 characters of s that start at j.
IdAt(s, j) ==
    SubSeq(s, j, j + 10)

Leftmost(S) ==
    CHOOSE j \in S : \A q \in S : j <= q

\* The extractor has run in the current script run.
Extracted ==
    extract_log # <<>>

VideoA ==
    <<"d", "Q", "w", "4", "w", "9", "W", "g", "X", "c", "Q">>

VideoB ==
    <<"_", "-", "3", "4", "5", "6", "7", "8", "9", "0", "1">>

---------------------------------------------------------------------------
(* extract_video_id *)

\* C1 as stated: whenever the input contains "v=" or "/" followed by an
\* 11-character string X over the alphabet, extraction returns X.
C1_Original ==
    Extracted =>
        \A j \in Prefixed(extract_log[1]) : video_id = <<IdAt(extract_log[1], j)>>

\* C1 amended: whenever the input contains "v=" or "/" followed by an
\* 11-character string X over the alphabet, and no earlier position of the
\* input has "v=" or "/" followed by 11 characters of the alphabet,
\* extraction returns X.
C1_FirstPrefixedId ==
    Extracted =>
        \A j \in Prefixed(extract_log[1]) :
            (\A q \in Prefixed(extract_log[1]) : q >= j)
                => video_id = <<IdAt(extract_log[1], j)>>

\* Extraction ran on ".../dQw4w9WgXcQ&t=30s" and returned dQw4w9WgXcQ.
C1_Witness ==
    /\ Extracted
    /\ extract_log[1] = <<"/">> \o VideoA \o <<"&", "t", "=", "3", "0", "s">>
    /\ video_id = <<VideoA>>

C10_LeftmostElevenChars ==
    (Extracted /\ Prefixed(extract_log[1]) # {}) =>
        /\ video_id # None
        /\ Len(video_id[1]) = 11
        /\ video_id[1] = IdAt(extract_log[1], Leftmost(Prefixed(extract_log[1])))

\* Extraction ran on an input with two such positions holding different
\* ids, the leftmost run being longer than 11 characters, and returned the
\* first 11 characters of the leftmost run.
C10_Witness ==
    /\ Extracted
    /\ Cardinality({ IdAt(extract_log[1], j) : j \in Prefixed(extract_log[1]) }) >= 2
    /\ LET j == Leftmost(Prefixed(extract_log[1]))
       IN  /\ j + 11 <= Len(extract_log[1])
           /\ extract_log[1][j + 11] \in IdChars
           /\ video_id = <<IdAt(extract_log[1], j)>>

---------------------------------------------------------------------------
(* fetch_transcript *)

\* The text fields of caption records that all have one.
Texts(segs) ==
    [k \in 1..Len(segs) |-> segs[k].text]

RECURSIVE SumLen(_, _)
\* Len(texts[1]) + ... + Len(texts[n])
SumLen(texts, n) ==
    IF n = 0 THEN 0 ELSE SumLen(texts, n - 1) + Len(texts[n])

\* Where texts[i] starts in t1 + "\n" + t2 + ... + "\n" + tN.
Offset(texts, i) ==
    SumLen(texts, i - 1) + i

\* t1 + "\n" + t2 + ... + "\n" + tN, character by character: position p
\* lies in the text i it belongs to, or is the separator that follows it.
Joined(texts) ==
    LET N == Len(texts)
        total == IF N = 0 THEN 0 ELSE SumLen(texts, N) + N - 1
    IN  [p \in 1..total |->
            LET i == CHOOSE i \in 1..N :
                        /\ Offset(texts, i) <= p
                        /\ p <= Offset(texts, i) + Len(texts[i])
            IN  IF p = Offset(texts, i) + Len(texts[i])
                THEN "\n"
                ELSE texts[i][p - Offset(texts, i) + 1]]

\* get_transcript returned, and every record it returned has a text field.
FetchSucceeded ==
    /\ result # None
    /\ result[1].kind = "return"
    /\ \A k \in 1..Len(result[1].segs) : "text" \in DOMAIN result[1].segs[k]

\* get_transcript raised, or it returned a record without a text field.
FetchFailed ==
    /\ result # None
    /\ \/ result[1].kind = "raise"
       \/ \E k \in 1..Len(result[1].segs) : "text" \notin DOMAIN result[1].segs[k]

\* The description of the error behind a failed fetch.
Underlying ==
    IF result[1].kind = "raise" THEN result[1].desc ELSE "'text'"

\* C3: for segment records with texts t1..tN, fetch_transcript returns
\* t1 + "\n" + ... + "\n" + tN, and the empty string for N = 0.
C3_TranscriptIsJoinedTexts ==
    FetchSucceeded =>
        /\ Len(Shown("text_area")) = 1
        /\ Shown("text_area")[1].data = Joined(Texts(result[1].segs))
        /\ (result[1].segs = <<>> => Shown("text_area")[1].data = <<>>)

\* The records "Hello", "world" came back and the transcript is
\* "Hello\nworld".
C3_Witness ==
    /\ FetchSucceeded
    /\ Texts(result[1].segs) = << <<"H", "e", "l", "l", "o">>, <<"w", "o", "r", "l", "d">> >>
    /\ Shown("text_area")[1].data
         = <<"H", "e", "l", "l", "o", "\n", "w", "o", "r", "l", "d">>

---------------------------------------------------------------------------
(* main() *)

\* C4: a press with empty input shows "Please enter a YouTube URL." and
\* ends the run; the extractor and the external call are not invoked.
C4_EmptyInput ==
    (fetch_button /\ video_url = <<>>) =>
        /\ pc = "idle"
        /\ Messages = <<"Please enter a YouTube URL.">>
        /\ extract_log = <<>>
        /\ api_log = <<>>
        /\ result = None

\* The button was pressed with empty input.
C4_Witness ==
    /\ fetch_button
    /\ video_url = <<>>
    /\ Len(Shown("error")) = 1

\* C5: a press with non-empty input for which extraction returns None shows
\* the invalid-URL message and ends the run; no external call is made and
\* no transcript is displayed.
C5_InvalidUrl ==
    (fetch_button /\ video_url # <<>> /\ Extracted /\ video_id = None) =>
        /\ pc = "idle"
        /\ Messages = <<"Invalid YouTube URL. Please check the link and try again.">>
        /\ api_log = <<>>
        /\ result = None
        /\ Shown("text_area") = <<>>
        /\ Shown("download_button") = <<>>

\* The button was pressed with "not a url" in the input.
C5_Witness ==
    /\ fetch_button
    /\ video_url = <<"n", "o", "t", " ", "a", " ", "u", "r", "l">>
    /\ Extracted
    /\ video_id = None
    /\ Len(Shown("error")) = 1

\* C6: when fetch_transcript fails, the page shows exactly one error
\* message, the prefix followed by the error's description and ".", and
\* neither the transcript nor the download.
C6_FetchError ==
    FetchFailed =>
        /\ pc = "idle"
        /\ Messages = << "Sorry, there was a problem fetching the transcript: "
                           \o Underlying \o "." >>
        /\ Shown("exception") = <<>>
        /\ Shown("text_area") = <<>>
        /\ Shown("download_button") = <<>>
        /\ Shown("success") = <<>>

\* get_transcript raised "No transcripts available" and the page shows the
\* message of the spec's scenario.
C6_Witness ==
    /\ FetchFailed
    /\ result[1].desc = "No transcripts available"
    /\ Messages = <<"Sorry, there was a problem fetching the transcript: No transcripts available.">>

\* C7: in one run get_transcript is called at most once, only after the
\* extraction of the run's input has succeeded, with the extracted id, 11
\* characters of the alphabet; a failure does not lead to a second call.
C7_OneCallWithExtractedId ==
    /\ Len(api_log) <= 1
    /\ (pc = "fetching" \/ result # None) => Len(api_log) = 1
    /\ api_log # <<>> =>
        /\ fetch_button
        /\ extract_log = <<video_url>>
        /\ video_id = <<api_log[1]>>
        /\ Len(api_log[1]) = 11
        /\ \A k \in 1..Len(api_log[1]) : api_log[1][k] \in IdChars
        /\ \E j \in Prefixed(video_url) : api_log[1] = IdAt(video_url, j)

\* The one call of a run has raised and the run is over.
C7_Witness ==
    /\ pc = "idle"
    /\ result # None
    /\ result[1].kind = "raise"
    /\ Len(api_log) = 1

\* C8: once a run has shown its outcome (an error message or the
\* transcript) or the external call has answered, the session is idle, which
\* is all the next press waits for; and what the page shows is determined by
\* the run's own input, its own button value and its own external-call
\* outcome.
C8_ReadyAndIndependent ==
    /\ (Messages # <<>> \/ Shown("text_area") # <<>> \/ result # None)
          => pc = "idle"
    /\ Messages =
         IF ~fetch_button THEN <<>>
         ELSE IF video_url = <<>> THEN <<"Please enter a YouTube URL.">>
         ELSE IF Prefixed(video_url) = {}
         THEN <<"Invalid YouTube URL. Please check the link and try again.">>
         ELSE IF FetchFailed
         THEN << "Sorry, there was a problem fetching the transcript: "
                   \o Underlying \o "." >>
         ELSE <<>>
    /\ [k \in 1..Len(Shown("text_area")) |-> Shown("text_area")[k].data] =
         IF fetch_button /\ Prefixed(video_url) # {} /\ FetchSucceeded
         THEN <<Joined(Texts(result[1].segs))>>
         ELSE <<>>
    /\ Len(Shown("download_button")) = Len(Shown("text_area"))

\* A press has succeeded on the page that showed an error of the press
\* before it, and no error is left.
C8_Witness ==
    /\ pc = "idle"
    /\ fetch_button
    /\ FetchSucceeded
    /\ \E k \in 1..Len(prev_page) : prev_page[k] = "error"
    /\ Messages = <<>>
    /\ Len(Shown("text_area")) = 1

\* C9: the transcript is displayed and offered for download, as
\* youtube_transcript.txt of type text/plain, exactly when the button was
\* pressed with non-empty input, extraction succeeded and the fetch
\* succeeded; then no error is shown and both carry the same transcript.
C9_DisplayIffSuccess ==
    LET success == /\ fetch_button
                   /\ video_url # <<>>
                   /\ Prefixed(video_url) # {}
                   /\ FetchSucceeded
        areas == Shown("text_area")
        downloads == Shown("download_button")
    IN  /\ (areas # <<>>) <=> success
        /\ (downloads # <<>>) <=> success
        /\ success =>
            /\ Len(areas) = 1
            /\ Len(downloads) = 1
            /\ Messages = <<>>
            /\ downloads[1].file_name = "youtube_transcript.txt"
            /\ downloads[1].mime = "text/plain"
            /\ downloads[1].data = areas[1].data
            /\ areas[1].data = Joined(Texts(result[1].segs))

\* A non-empty transcript is on the page and in the download.
C9_Witness ==
    /\ FetchSucceeded
    /\ Len(Shown("download_button")) = 1
    /\ Shown("download_button")[1].data # <<>>
    /\ Shown("download_button")[1].data = Shown("text_area")[1].data

=============================================================================
